---- MODULE Spec2Model ----
(***************************************************************************)
(* A model of the fixed-timestep simulation of src/src/main.rs: the entity *)
(* store (World), the four systems of the fixed-timestep system set, and   *)
(* the deferred command queues that are applied at the end of the stage.   *)
(*                                                                         *)
(* Numbers.  f32 positions are fixed-point integers, PosScale units per    *)
(* world unit; unit vectors (directions, headings) are fixed-point with    *)
(* DirScale units per 1.0.  With these resolutions every per-tick step of  *)
(* the program (velocity * TIME_STEP * direction) is an integer.  A Vec3   *)
(* is a triple <<x, y, z>>.  A rotation about Z (the only rotations the    *)
(* program produces) is the number of 6-degree steps, modulo a full turn.  *)
(* An f32 NaN is kept as a flag beside the translation it poisons.         *)
(***************************************************************************)
EXTENDS Integers, Sequences, FiniteSets, TLC

VARIABLES
    entities,       \* World: entity id -> components
    nextId,         \* next entity id Commands will reserve
    timerElapsed,   \* EnemySpawnConfig.timer: elapsed, in ms
    timerFinished,  \* EnemySpawnConfig.timer: finished()
    spawnerQueue,   \* Commands of setup_spawn_enemy, not yet applied
    shootingQueue,  \* Commands of player_shooting_system, not yet applied
    order,          \* the order in which the executor runs the systems of the set
    ran,            \* systems of the set that have run in the current tick
    tick,           \* completed runs of the system set
    keysHeld,       \* Input<KeyCode>: the keys pressed, as read by Movement
    lastDelta,      \* Time::delta(), in ms, as read by the spawner
    moveFrom,       \* history: the translation Movement last started from
    cumul,          \* history: sum of the deltas fed to the timer, in ms
    steady,         \* history: every delta so far was the same
    fireCount,      \* history: how often the timer has finished
    sinceFire,      \* history: spawner runs since the timer last finished
    lastGap,        \* history: spawner runs between the last two finishes
    lastAngle,      \* history: rand_angle of the run in which the timer last finished
    rotation0,      \* history: the player's rotation after setup
    qOnly,          \* history: runs of Movement with Q held and E not
    eOnly           \* history: runs of Movement with E held and Q not

vars == <<entities, nextId, timerElapsed, timerFinished, spawnerQueue,
          shootingQueue, order, ran, tick, keysHeld, lastDelta, moveFrom, cumul,
          steady, fireCount, sinceFire, lastGap, lastAngle, rotation0, qOnly,
          eOnly>>

----------------------------------------------------------------------------
(* Program constants *)

TicksPerSecond == 60
BoundsX == 1200
BoundsY == 640
PlayerVelocity == 500
RotationSpeed == 1
BulletVelocity == 750
EnemyVelocity == 250
SpawnRadius == 400
TimerPeriod == 500

(* Fixed-point resolutions of the f32 values *)
PosScale == 24
DirScale == 100

(* Bounds of the model *)
MaxTicks == 60
MaxMoveTicks == 3
MaxTimerTicks == 12
MaxHomingTicks == 100

----------------------------------------------------------------------------
(* Vec3 *)

Vec(x, y, z) == <<x, y, z>>
ZeroVec == Vec(0, 0, 0)
UnitX == Vec(DirScale, 0, 0)
UnitY == Vec(0, DirScale, 0)
VAdd(a, b) == [i \in 1..3 |-> a[i] + b[i]]
VSub(a, b) == [i \in 1..3 |-> a[i] - b[i]]
VNeg(a) == [i \in 1..3 |-> 0 - a[i]]
VMin(a, b) == [i \in 1..3 |-> IF a[i] < b[i] THEN a[i] ELSE b[i]]
VMax(a, b) == [i \in 1..3 |-> IF a[i] > b[i] THEN a[i] ELSE b[i]]
Dot(a, b) == a[1] * b[1] + a[2] * b[2] + a[3] * b[3]
WorldVec(x, y, z) == Vec(x * PosScale, y * PosScale, z * PosScale)

(* PartialOrd of Vec3: the comparison of the arrays [x, y, z], which is *)
(* lexicographic.                                                       *)
LexGt(a, b) ==
    \/ a[1] > b[1]
    \/ a[1] = b[1] /\ a[2] > b[2]
    \/ a[1] = b[1] /\ a[2] = b[2] /\ a[3] > b[3]
LexLt(a, b) == LexGt(b, a)

StepVecPerSecond(velocity, dir) ==
    [i \in 1..3 |-> (velocity * PosScale * dir[i]) \div DirScale]
(* velocity * TIME_STEP * direction, direction in DirScale units *)
StepVec(velocity, dir) ==
    [i \in 1..3 |-> (velocity * PosScale * dir[i]) \div (DirScale * TicksPerSecond)]

Extents == WorldVec(BoundsX \div 2, BoundsY \div 2, 0)

Abs(n) == IF n < 0 THEN 0 - n ELSE n
RoundDiv(a, b) ==
    IF a < 0 THEN 0 - ((2 * (0 - a) + b) \div (2 * b)) ELSE (2 * a + b) \div (2 * b)

RECURSIVE SqrtSearch(_, _, _)
SqrtSearch(n, lo, hi) ==
    IF lo >= hi THEN lo
    ELSE LET mid == (lo + hi + 1) \div 2
         IN  IF mid * mid <= n THEN SqrtSearch(n, mid, hi)
             ELSE SqrtSearch(n, lo, mid - 1)
ISqrt(n) == SqrtSearch(n, 0, 46340)

(* Vec3::length, in 1/DirScale of a position unit *)
LengthScaled(v) ==
    LET d == Dot(v, v)
    IN  IF d <= 2147483647 \div (DirScale * DirScale)
        THEN ISqrt(DirScale * DirScale * d)
        ELSE DirScale * ISqrt(d)

(* Vec3::normalize = v * (1 / length): a unit vector in DirScale units. *)
(* Of the zero vector it is 0 * inf = NaN in every component: IsZero.   *)
IsZero(v) == v = ZeroVec
Normalize(v) == [i \in 1..3 |-> RoundDiv(DirScale * DirScale * v[i], LengthScaled(v))]

----------------------------------------------------------------------------
(* Quat: rotations about Z in steps of rotation_speed * TIME_STEP *)

TurnSteps == TicksPerSecond \div RotationSpeed
Quarter == TurnSteps \div 4

SinTable == <<0, 10, 21, 31, 41, 50, 59, 67, 74, 81, 87, 91, 95, 98, 99, 100>>
Sin(k) ==
    LET r == k % TurnSteps
    IN  IF r <= Quarter THEN SinTable[r + 1]
        ELSE IF r <= 2 * Quarter THEN SinTable[2 * Quarter - r + 1]
        ELSE IF r <= 3 * Quarter THEN 0 - SinTable[r - 2 * Quarter + 1]
        ELSE 0 - SinTable[TurnSteps - r + 1]
Cos(k) == Sin(k + Quarter)

(* rotation * Vec3::Y *)
RotateY(rot) == Vec(0 - Sin(rot), Cos(rot), 0)
(* rotation * from_rotation_z(factor * rotation_speed * TIME_STEP) *)
ComposeReplacing(rot, factor) == (factor + TurnSteps) % TurnSteps
Compose(rot, factor) == (rot + factor + TurnSteps) % TurnSteps

----------------------------------------------------------------------------
(* Entities *)

Systems == {"spawner", "movement", "shooting", "homing"}
Keys == {"Q", "E", "Up", "Down", "Left", "Right"}

Sprite(k, pos) ==
    [kind |-> k, translation |-> pos, nan |-> FALSE, rotation |-> 0,
     velocity |-> 0, direction |-> ZeroVec]
NewBulletAtOrigin(pos, dir) ==
    [Sprite("Bullet", ZeroVec) EXCEPT !.velocity = BulletVelocity, !.direction = dir]
NewBullet(pos, dir) ==
    [Sprite("Bullet", pos) EXCEPT !.velocity = BulletVelocity, !.direction = dir]
NewPlayer(pos) ==
    [Sprite("Player", pos) EXCEPT !.velocity = PlayerVelocity]
NewEnemyAsPlayer(pos) ==
    [Sprite("Player", pos) EXCEPT !.velocity = EnemyVelocity]
NewEnemy(pos) ==
    [Sprite("Enemy", pos) EXCEPT !.velocity = EnemyVelocity]

CameraId == 0
TextId == 1
SetupBulletId == 2
PlayerId == 3

SetupWorld ==
    (CameraId :> Sprite("Camera", ZeroVec)) @@
    (TextId :> Sprite("Text", ZeroVec)) @@
    (SetupBulletId :> NewBullet(ZeroVec, UnitY)) @@
    (PlayerId :> NewPlayer(ZeroVec))

OfKind(k) == {e \in DOMAIN entities : entities[e].kind = k}
(* Query::single: the one entity of the kind; the system panics otherwise *)
HasSingle(k) == Cardinality(OfKind(k)) = 1
Single(k) == CHOOSE e \in OfKind(k) : TRUE

RECURSIVE SortedIds(_)
SortedIds(S) ==
    IF S = {} THEN <<>>
    ELSE LET m == CHOOSE x \in S : \A y \in S : x <= y
         IN  <<m>> \o SortedIds(S \ {m})

(* The systems of the set carry no ordering constraint (no label, no      *)
(* before/after): the executor runs them in an order the program does not *)
(* determine.  The schedule is built once, so the order is that of a run. *)
Registered == <<"spawner", "movement", "shooting", "homing">>
Orders == {o \in [1..Cardinality(Systems) -> Systems] :
              \A i, j \in 1..Cardinality(Systems) : o[i] = o[j] => i = j}
IsNext(system) ==
    /\ Cardinality(ran) < Len(order)
    /\ order[Cardinality(ran) + 1] = system

SpawnCmd(id, comp) == [op |-> "spawn", id |-> id, comp |-> comp]
DespawnCmd(id) == [op |-> "despawn", id |-> id, comp |-> Sprite("None", ZeroVec)]

ApplyCmd(world, c) ==
    IF c.op = "spawn" THEN world @@ (c.id :> c.comp)
    ELSE [e \in DOMAIN world \ {c.id} |-> world[e]]

RECURSIVE ApplyQueue(_, _)
ApplyQueue(world, q) ==
    IF q = <<>> THEN world ELSE ApplyQueue(ApplyCmd(world, Head(q)), Tail(q))

----------------------------------------------------------------------------
InitWith(world, orders) ==
    /\ entities = world
    /\ nextId = 4
    /\ timerElapsed = 0
    /\ timerFinished = FALSE
    /\ spawnerQueue = <<>>
    /\ shootingQueue = <<>>
    /\ order \in orders
    /\ ran = {}
    /\ tick = 0
    /\ keysHeld = {}
    /\ lastDelta = 0
    /\ moveFrom = ZeroVec
    /\ cumul = 0
    /\ steady = TRUE
    /\ fireCount = 0
    /\ sinceFire = 0
    /\ lastGap = 0
    /\ lastAngle = 0
    /\ rotation0 = world[PlayerId].rotation
    /\ qOnly = 0
    /\ eOnly = 0

Init == InitWith(SetupWorld, Orders)

----------------------------------------------------------------------------
(* player_movement_system *)

Axis(keys, plus, minus) ==
    (IF plus \in keys THEN 1 ELSE 0) - (IF minus \in keys THEN 1 ELSE 0)
RotationFactor(keys) == Axis(keys, "Q", "E")
MoveAxisNormalized(keys) ==
    LET v == Vec(DirScale * Axis(keys, "Right", "Left"), DirScale * Axis(keys, "Up", "Down"), 0)
    IN  IF IsZero(v) THEN v ELSE Normalize(v)
MoveAxis(keys) ==
    Vec(DirScale * Axis(keys, "Right", "Left"), DirScale * Axis(keys, "Up", "Down"), 0)

ClampUpperOnly(pos) == VMin(pos, Extents)
Clamp(pos) == VMax(VMin(pos, Extents), VNeg(Extents))

MovePlayer(p, keys) ==
    [p EXCEPT !.rotation = Compose(p.rotation, RotationFactor(keys)),
              !.translation = Clamp(VAdd(p.translation, StepVec(p.velocity, MoveAxis(keys))))]

PlayerMovementSystem(keys) ==
    /\ IsNext("movement")
    /\ HasSingle("Player")
    /\ LET id == Single("Player")
       IN  /\ entities' = [entities EXCEPT ![id] = MovePlayer(entities[id], keys)]
           /\ moveFrom' = entities[id].translation
    /\ keysHeld' = keys
    /\ qOnly' = qOnly + (IF "Q" \in keys /\ "E" \notin keys THEN 1 ELSE 0)
    /\ eOnly' = eOnly + (IF "E" \in keys /\ "Q" \notin keys THEN 1 ELSE 0)
    /\ ran' = ran \cup {"movement"}
    /\ UNCHANGED <<order, nextId, timerElapsed, timerFinished, spawnerQueue, shootingQueue,
                   tick, lastDelta, lastAngle, cumul, steady, fireCount, sinceFire, lastGap,
                   rotation0>>

----------------------------------------------------------------------------
(* setup_spawn_enemy *)

TimerTickDropExcess(elapsed, delta) ==
    LET e == elapsed + delta
    IN  [finished |-> e >= TimerPeriod,
         elapsed |-> IF e >= TimerPeriod THEN 0 ELSE e]

(* Timer::tick of a repeating timer: the stopwatch advances by delta, the  *)
(* timer is finished when elapsed >= duration, and the elapsed time wraps  *)
(* around the duration (the excess is kept).                               *)
TimerTick(elapsed, delta) ==
    LET e == elapsed + delta
    IN  [finished |-> e >= TimerPeriod,
         elapsed |-> IF e >= TimerPeriod THEN e % TimerPeriod ELSE e]

(* let (x, y) = rand_angle.sin_cos(); from_xyz(x * 400.0, y * 400.0, 0.0) *)
SpawnPoint(angle) ==
    Vec((Sin(angle) * SpawnRadius * PosScale) \div DirScale,
        (Cos(angle) * SpawnRadius * PosScale) \div DirScale, 0)

EnemySpawnsEveryTick(finished, id, angle) ==
    <<SpawnCmd(id, NewEnemy(SpawnPoint(angle)))>>
(* if config.timer.finished() { commands.spawn_bundle(enemy).insert(Enemy{..}) } *)
EnemySpawns(finished, id, angle) ==
    IF finished THEN <<SpawnCmd(id, NewEnemy(SpawnPoint(angle)))>> ELSE <<>>

SetupSpawnEnemy(delta, angle) ==
    /\ IsNext("spawner")
    /\ LET t == TimerTick(timerElapsed, delta)
       IN  /\ timerElapsed' = t.elapsed
           /\ timerFinished' = t.finished
           /\ spawnerQueue' = spawnerQueue \o EnemySpawns(t.finished, nextId, angle)
           /\ lastAngle' = IF t.finished THEN angle ELSE lastAngle
           /\ IF t.finished
              THEN /\ nextId' = nextId + 1
                   /\ fireCount' = fireCount + 1
                   /\ sinceFire' = 0
                   /\ lastGap' = IF fireCount > 0 THEN sinceFire + 1 ELSE 0
              ELSE /\ UNCHANGED <<nextId, fireCount, lastGap>>
                   /\ sinceFire' = sinceFire + 1
    /\ lastDelta' = delta
    /\ cumul' = cumul + delta
    /\ steady' = (steady /\ (tick = 0 \/ delta = lastDelta))
    /\ ran' = ran \cup {"spawner"}
    /\ UNCHANGED <<order, entities, shootingQueue, tick, keysHeld, moveFrom, rotation0,
                   qOnly, eOnly>>

----------------------------------------------------------------------------
(* move_enemy_system *)

HomeEnemySlowing(enemy, playerPosition) ==
    LET direction == VSub(playerPosition, enemy.translation)
    IN  IF enemy.nan \/ IsZero(direction)
        THEN [enemy EXCEPT !.nan = TRUE]
        ELSE [enemy EXCEPT !.translation =
                 VAdd(enemy.translation, StepVec(enemy.velocity, Normalize(direction))),
                           !.velocity = enemy.velocity - 1]
HomeEnemy(enemy, playerPosition) ==
    LET direction == VSub(playerPosition, enemy.translation)
    IN  IF enemy.nan \/ IsZero(direction)
        THEN [enemy EXCEPT !.nan = TRUE]
        ELSE [enemy EXCEPT !.translation =
                 VAdd(enemy.translation, StepVec(enemy.velocity, Normalize(direction)))]

MoveEnemySystem ==
    /\ IsNext("homing")
    /\ HasSingle("Player")
    /\ LET playerPosition == entities[Single("Player")].translation
       IN  entities' = [e \in DOMAIN entities |->
                           IF entities[e].kind = "Enemy"
                           THEN HomeEnemy(entities[e], playerPosition)
                           ELSE entities[e]]
    /\ ran' = ran \cup {"homing"}
    /\ UNCHANGED <<order, nextId, timerElapsed, timerFinished, spawnerQueue, shootingQueue,
                   tick, keysHeld, lastDelta, lastAngle, moveFrom, rotation0, qOnly, eOnly,
                   cumul, steady, fireCount, sinceFire, lastGap>>

----------------------------------------------------------------------------
(* player_shooting_system *)

AdvanceBulletReaimed(b) ==
    [b EXCEPT !.translation = VAdd(b.translation, StepVec(b.velocity, b.direction)),
              !.direction = RotateY(entities[Single("Player")].rotation)]
AdvanceBulletTwice(b) ==
    [b EXCEPT !.translation =
        VAdd(VAdd(b.translation, StepVec(b.velocity, b.direction)),
             StepVec(b.velocity, b.direction))]
AdvanceBullet(b) ==
    [b EXCEPT !.translation = VAdd(b.translation, StepVec(b.velocity, b.direction))]

(* translation.gt(&extents) || translation.lt(&-extents) *)
Culled(pos) == LexGt(pos, Extents) \/ LexLt(pos, VNeg(Extents))

RECURSIVE DespawnCmds(_)
DespawnCmds(ids) ==
    IF ids = <<>> THEN <<>> ELSE <<DespawnCmd(Head(ids))>> \o DespawnCmds(Tail(ids))

PlayerShootingSystem ==
    /\ IsNext("shooting")
    /\ HasSingle("Player")
    /\ LET player == entities[Single("Player")]
           advanced == [e \in DOMAIN entities |->
                           IF entities[e].kind = "Bullet"
                           THEN AdvanceBullet(entities[e]) ELSE entities[e]]
           gone == {e \in OfKind("Bullet") : Culled(advanced[e].translation)}
       IN  /\ entities' = advanced
           /\ shootingQueue' =
                  Append(shootingQueue,
                         SpawnCmd(nextId, NewBullet(player.translation, RotateY(player.rotation))))
                  \o DespawnCmds(SortedIds(gone))
    /\ nextId' = nextId + 1
    /\ ran' = ran \cup {"shooting"}
    /\ UNCHANGED <<order, timerElapsed, timerFinished, spawnerQueue, tick, keysHeld,
                   lastDelta, lastAngle, moveFrom, rotation0, qOnly, eOnly, cumul, steady,
                   fireCount, sinceFire, lastGap>>

----------------------------------------------------------------------------
(* End of the stage: the command queues are applied, in the order of the *)
(* systems in the set, and the next run of the set begins.               *)

ApplyBuffers ==
    /\ Cardinality(ran) = Len(order)
    /\ entities' = ApplyQueue(ApplyQueue(entities, spawnerQueue), shootingQueue)
    /\ spawnerQueue' = <<>>
    /\ shootingQueue' = <<>>
    /\ ran' = {}
    /\ tick' = tick + 1
    /\ UNCHANGED <<order, nextId, timerElapsed, timerFinished, keysHeld, lastDelta,
                   lastAngle, moveFrom, rotation0, qOnly, eOnly, cumul, steady, fireCount,
                   sinceFire, lastGap>>

----------------------------------------------------------------------------
(* The program from setup.  The player chooses a key combination in the  *)
(* first tick and holds it.  The first frame may be a long one (a spawn   *)
(* in the first tick); the frame time is nominal afterwards.              *)

AllKeySets == SUBSET Keys
KeySets == {{}, {"Q"}, {"E", "Right"}, {"Up", "Left"}, Keys}
Angles == {0, Quarter, 2 * Quarter, 3 * Quarter}
KeysNow == IF tick = 0 THEN KeySets ELSE {keysHeld}
DeltasNow == IF tick = 0 THEN {16, 500} ELSE {16}
AnglesNow == IF tick = 0 THEN Angles ELSE {0}

Movement == tick < MaxTicks /\ \E keys \in KeysNow : PlayerMovementSystem(keys)
Spawner == tick < MaxTicks /\ \E d \in DeltasNow, a \in AnglesNow : SetupSpawnEnemy(d, a)
Shooting == tick < MaxTicks /\ PlayerShootingSystem
Homing == tick < MaxTicks /\ MoveEnemySystem
EndOfStage == ApplyBuffers

Next == Movement \/ Spawner \/ Shooting \/ Homing \/ EndOfStage

Spec == Init /\ [][Next]_vars

----------------------------------------------------------------------------
(* player_movement_system alone, under every combination of held keys.    *)
(* The player's pose is written by no other system, so the set is reduced *)
(* to this system.  The player starts at the setup position, at the       *)
(* corners of the arena, one step from an edge, or at (590, 0); at the     *)
(* setup position it may also start turned by one step to the right.      *)

PlayerStep == StepVec(PlayerVelocity, UnitX)
StartPositions ==
    {ZeroVec, WorldVec(590, 0, 0), Extents, VNeg(Extents),
     VSub(Extents, PlayerStep), Vec(0 - Extents[1], Extents[2], 0),
     Vec(0, PlayerStep[1] - Extents[2], 0)}
StartRotations == {0, TurnSteps - 1}
MoveWorld(pos, rot) ==
    [SetupWorld EXCEPT ![PlayerId].translation = pos, ![PlayerId].rotation = rot]

InitMove ==
    \E pos \in StartPositions, rot \in StartRotations :
        /\ pos = ZeroVec \/ rot = 0
        /\ InitWith(MoveWorld(pos, rot), {<<"movement">>})
MoveOnly == tick < MaxMoveTicks /\ \E keys \in AllKeySets : PlayerMovementSystem(keys)
MoveStageEnd == ApplyBuffers
NextMove == MoveOnly \/ MoveStageEnd
SpecMove == InitMove /\ [][NextMove]_vars

----------------------------------------------------------------------------
(* The program from setup under a constant frame time: every delta fed to *)
(* the timer is the one of the first tick.  No key is held.               *)

TimerDeltas == {16, 100, 125, 250, 300, 499, 500, 700, 1200}
TimerSpawner ==
    /\ tick < MaxTimerTicks
    /\ \E d \in TimerDeltas : (tick = 0 \/ d = lastDelta) /\ SetupSpawnEnemy(d, 0)
TimerMovement == tick < MaxTimerTicks /\ PlayerMovementSystem({})
TimerShooting == tick < MaxTimerTicks /\ PlayerShootingSystem
TimerHoming == tick < MaxTimerTicks /\ MoveEnemySystem
TimerStageEnd == ApplyBuffers
NextTimer == TimerSpawner \/ TimerMovement \/ TimerShooting \/ TimerHoming \/ TimerStageEnd
SpecTimer == Init /\ [][NextTimer]_vars

----------------------------------------------------------------------------
(* The program from setup with an enemy spawned in the first tick (a long *)
(* first frame, short frames afterwards) and a player that stays where it *)
(* is after the first tick: at the origin or one step to the right of it. *)

HomingKeys == IF tick = 0 THEN {{}, {"Right"}} ELSE {{}}
HomingDeltas == IF tick = 0 THEN {500} ELSE {1}
HomingAngles == Angles \cup {Quarter \div 3}
ChaseSpawner ==
    /\ tick < MaxHomingTicks
    /\ \E d \in HomingDeltas, a \in HomingAngles : SetupSpawnEnemy(d, a)
ChaseMovement == tick < MaxHomingTicks /\ \E keys \in HomingKeys : PlayerMovementSystem(keys)
ChaseShooting == tick < MaxHomingTicks /\ PlayerShootingSystem
ChaseHoming == tick < MaxHomingTicks /\ MoveEnemySystem
ChaseStageEnd == ApplyBuffers
NextHoming == ChaseSpawner \/ ChaseMovement \/ ChaseShooting \/ ChaseHoming \/ ChaseStageEnd
SpecHoming == Init /\ [][NextHoming]_vars

----------------------------------------------------------------------------
(* Properties *)

Player == entities[Single("Player")]
StageEnds == Cardinality(ran) = Len(order) /\ ran' = {}
IsDespawn(c) == c.op = "despawn"
Removed == Len(SelectSeq(shootingQueue, IsDespawn))
(* some component outside [-extents, +extents] *)
Outside(pos) == \E i \in 1..3 : pos[i] > Extents[i] \/ pos[i] < 0 - Extents[i]
Despawned == {e \in 4..(nextId - 1) : e \notin DOMAIN entities}

(* C1 (as claimed): over every tick, the bullet count after the deferred  *)
(* commands are applied is the count before plus one minus the number     *)
(* removed, and the number removed is the number of bullets whose         *)
(* advanced position has some component outside [-extents, +extents].     *)
C1_BulletLifecycle ==
    [][StageEnds =>
        /\ Cardinality(OfKind("Bullet"))' = Cardinality(OfKind("Bullet")) + 1 - Removed
        /\ Removed = Cardinality({e \in OfKind("Bullet") : Outside(entities[e].translation)})
      ]_vars

(* C2 (as claimed): the bullet inserted by setup is above y = 320 after   *)
(* its 26th advance and is no longer in the entity store after that tick. *)
C2_SetupBulletRemoved ==
    /\ (tick = 25 /\ "shooting" \in ran /\ SetupBulletId \in DOMAIN entities)
          => entities[SetupBulletId].translation[2] > Extents[2]
    /\ tick >= 26 => SetupBulletId \notin DOMAIN entities

(* C4 (as claimed): in every tick Movement has run before Shooting and    *)
(* before Homing read the player's pose.                                  *)
C4_MovementFirst ==
    /\ "shooting" \in ran => "movement" \in ran
    /\ "homing" \in ran => "movement" \in ran

(* C7: exactly one Player entity exists in every state after setup.       *)
C7_OnePlayer == Cardinality(OfKind("Player")) = 1
C7_Witness ==
    /\ tick >= 2
    /\ OfKind("Enemy") # {}
    /\ Despawned # {}
    /\ ran = {}
    /\ Cardinality(OfKind("Player")) = 1

(* C10: a bullet's direction and speed are the same in every state from   *)
(* its spawn to its removal.                                              *)
C10_DirectionFrozen ==
    [][\A e \in DOMAIN entities \cap DOMAIN entities' :
          entities[e].kind = "Bullet" =>
             /\ entities'[e].kind = "Bullet"
             /\ entities'[e].direction = entities[e].direction
             /\ entities'[e].velocity = entities[e].velocity]_vars
C10_Witness ==
    \E e \in OfKind("Bullet") :
        /\ entities[e].direction # UnitY
        /\ entities[e].direction # RotateY(Player.rotation)
        /\ entities[e].translation # Player.translation
        /\ Player.rotation # 0

InBounds(pos) == ~Outside(pos)
Unclamped == VAdd(moveFrom, StepVec(Player.velocity, MoveAxis(keysHeld)))

(* C3: after Movement has run in a tick, the player's position is within  *)
(* [-600, 600] x [-320, 320], whatever keys are held.                     *)
C3_PlayerInBounds == "movement" \in ran => InBounds(Player.translation)
C3_Witness ==
    /\ "movement" \in ran
    /\ Outside(Unclamped)
    /\ Cardinality(keysHeld) >= 3
    /\ InBounds(Player.translation)

(* C9 (as claimed): from (590, 0), with only move-right held, one tick    *)
(* of Movement ends at the clamped position (600, 0).                     *)
Scenario9 ==
    /\ "movement" \in ran
    /\ moveFrom = WorldVec(590, 0, 0)
    /\ keysHeld = {"Right"}
C9_ClampedAt600 == Scenario9 => Player.translation = WorldVec(600, 0, 0)
(* C9 (amended): from (590, 0), with only move-right held, one tick of    *)
(* Movement ends at (590 + 500/60, 0) = (598.33.., 0), short of the edge  *)
(* at 600, so the clamp does not act.                                     *)
C9_EndsAt598 ==
    Scenario9 =>
        /\ Player.translation = Vec(590 * PosScale + (500 * PosScale) \div 60, 0, 0)
        /\ Player.translation[1] < 600 * PosScale
C9_Witness == Scenario9 /\ Player.translation = Unclamped /\ tick = 0

HomingRuns == IsNext("homing") /\ "homing" \in ran'
EnemyStep == StepVec(EnemyVelocity, UnitX)[1]
OnAxis(v) == v[1] = 0 \/ v[2] = 0
AxisLength(v) == Abs(v[1]) + Abs(v[2])

(* C5 (as claimed): when Homing processes an enemy whose position equals  *)
(* the player's, the enemy's position is unchanged, and no NaN is written *)
(* into any stored pose.                                                  *)
C5_ZeroDisplacement ==
    [][HomingRuns =>
        /\ \A e \in OfKind("Enemy") :
              (~entities[e].nan /\ entities[e].translation = Player.translation)
                 => (entities'[e].translation = entities[e].translation /\ ~entities'[e].nan)
        /\ \A e \in DOMAIN entities' : ~entities'[e].nan
      ]_vars

FloorDiv(a, b) == a \div b
CeilDiv(a, b) == (a + b - 1) \div b
ConstantFeed == steady /\ cumul > 0

(* C6 (as claimed): under a constant delta d the spawner fires on the     *)
(* first tick at which the cumulative time reaches 500 ms, afterwards     *)
(* exactly every ceil(500/d) ticks, and never more than once in a tick.   *)
C6_EveryCeil ==
    ConstantFeed =>
        /\ fireCount = 0 <=> cumul < TimerPeriod
        /\ fireCount >= 2 => lastGap = CeilDiv(TimerPeriod, lastDelta)
        /\ Len(spawnerQueue) <= 1
(* C6 (amended): under a constant delta d the spawner fires on the first  *)
(* tick at which the cumulative time reaches 500 ms, never more than once *)
(* in a tick, and on tick n exactly when n*d has passed a further         *)
(* multiple of 500 (the excess over 500 is kept): consecutive fires are   *)
(* floor(500/d) or ceil(500/d) ticks apart, and exactly ceil(500/d) apart *)
(* when d divides 500 or d >= 500.                                        *)
C6_Periodic ==
    ConstantFeed =>
        /\ fireCount = 0 <=> cumul < TimerPeriod
        /\ timerFinished <=> (cumul \div TimerPeriod > (cumul - lastDelta) \div TimerPeriod)
        /\ timerElapsed = cumul % TimerPeriod
        /\ fireCount >= 2 =>
              /\ lastGap >= 1
              /\ lastGap \in {FloorDiv(TimerPeriod, lastDelta), CeilDiv(TimerPeriod, lastDelta)}
              /\ (TimerPeriod % lastDelta = 0 \/ lastDelta >= TimerPeriod)
                    => lastGap = CeilDiv(TimerPeriod, lastDelta)
        /\ Len(spawnerQueue) <= 1
C6_Witness ==
    /\ ConstantFeed
    /\ fireCount >= 3
    /\ lastDelta < TimerPeriod
    /\ lastGap < CeilDiv(TimerPeriod, lastDelta)
    /\ timerFinished

(* C8 (as claimed): with the player at rest, Homing brings an enemy that  *)
(* is not at the player's position exactly speed*dt closer while the      *)
(* distance is at least one step, and never takes it farther from the     *)
(* player than it was.                                                    *)
C8_HomingConverges ==
    [][HomingRuns =>
        \A e \in OfKind("Enemy") :
           LET from == VSub(Player.translation, entities[e].translation)
               to == VSub(Player.translation, entities'[e].translation)
           IN  (~entities[e].nan /\ ~IsZero(from)) =>
                  /\ Dot(to, to) <= Dot(from, from)
                  /\ (OnAxis(from) /\ AxisLength(from) >= EnemyStep)
                        => AxisLength(to) = AxisLength(from) - EnemyStep
      ]_vars

Count(k) == Cardinality(OfKind(k))
SpawnerRuns == IsNext("spawner") /\ "spawner" \in ran'
MovementRuns == IsNext("movement") /\ "movement" \in ran'
ShootingRuns == IsNext("shooting") /\ "shooting" \in ran'
IsSpawn(c) == c.op = "spawn"

(* C11: the number of enemies never decreases, grows by at most one in a  *)
(* tick, and grows only in a tick in which the spawn timer finished, also *)
(* when the tick's delta covers several periods of 500 ms.                *)
C11_EnemyCount ==
    [][/\ Count("Enemy")' >= Count("Enemy")
       /\ Count("Enemy")' <= Count("Enemy") + 1
       /\ Count("Enemy")' > Count("Enemy") => (StageEnds /\ timerFinished)
       /\ SpawnerRuns => Len(spawnerQueue') <= 1
      ]_vars
C11_Witness ==
    /\ lastDelta >= 2 * TimerPeriod
    /\ tick >= 3
    /\ ran = {}
    /\ Count("Enemy") = tick

HeldMoves == keysHeld \cap {"Up", "Down", "Left", "Right"}
Diagonal ==
    /\ Cardinality(HeldMoves) = 2
    /\ Cardinality(HeldMoves \cap {"Left", "Right"}) = 1
    /\ Cardinality(HeldMoves \cap {"Up", "Down"}) = 1
Moved == VSub(Player.translation, moveFrom)

(* C12: with one horizontal and one vertical movement key held and the    *)
(* player at least speed*dt from every edge, one tick of Movement moves   *)
(* the player by the full speed*dt = 500/60 along each of the two axes:   *)
(* the movement vector is not normalized.                                 *)
C12_DiagonalStep ==
    ("movement" \in ran /\ Diagonal
        /\ InBounds(VAdd(moveFrom, Vec(PlayerStep[1], PlayerStep[1], 0)))
        /\ InBounds(VSub(moveFrom, Vec(PlayerStep[1], PlayerStep[1], 0))))
    => /\ Moved[1] = (IF "Right" \in keysHeld THEN 1 ELSE 0 - 1) * ((500 * PosScale) \div 60)
       /\ Moved[2] = (IF "Up" \in keysHeld THEN 1 ELSE 0 - 1) * ((500 * PosScale) \div 60)
       /\ Dot(Moved, Moved) = 2 * ((500 * PosScale) \div 60) * ((500 * PosScale) \div 60)
C12_Witness ==
    /\ "movement" \in ran
    /\ keysHeld = {"Up", "Left"}
    /\ moveFrom = ZeroVec
    /\ Moved = Vec(0 - PlayerStep[1], PlayerStep[1], 0)

(* C13: in every tick Shooting queues exactly one new bullet, at the      *)
(* player's position and with the player's heading (+Y turned by the      *)
(* player's rotation) as Shooting reads them, with speed 750; the bullet  *)
(* enters the store at the end of the tick, not advanced.                 *)
C13_OneBulletAtPlayer ==
    [][/\ ShootingRuns =>
            LET spawns == SelectSeq(shootingQueue', IsSpawn)
            IN  /\ Len(SelectSeq(shootingQueue, IsSpawn)) = 0
                /\ Len(spawns) = 1
                /\ spawns[1].id \notin DOMAIN entities'
                /\ spawns[1].comp.kind = "Bullet"
                /\ spawns[1].comp.translation = Player.translation
                /\ spawns[1].comp.direction =
                      Vec(0 - Sin(Player.rotation), Cos(Player.rotation), 0)
                /\ spawns[1].comp.velocity = 750
       /\ StageEnds =>
            LET spawns == SelectSeq(shootingQueue, IsSpawn)
            IN  /\ Len(spawns) = 1
                /\ spawns[1].id \notin DOMAIN entities
                /\ spawns[1].id \in DOMAIN entities'
                /\ entities'[spawns[1].id] = spawns[1].comp
                /\ Count("Bullet")' = Count("Bullet") + 1 - Removed
      ]_vars
C13_Witness ==
    /\ "shooting" \in ran
    /\ "movement" \in ran
    /\ Player.rotation # 0
    /\ Player.translation # ZeroVec
    /\ tick >= 2
    /\ Len(SelectSeq(shootingQueue, IsSpawn)) = 1
    /\ SelectSeq(shootingQueue, IsSpawn)[1].comp.translation = Player.translation
    /\ SelectSeq(shootingQueue, IsSpawn)[1].comp.direction = RotateY(Player.rotation)

DespawnIds == {shootingQueue[i].id : i \in {j \in 1..Len(shootingQueue) : IsDespawn(shootingQueue[j])}}

(* C14: the advance/cull pass does not change the set of bullets while it *)
(* runs: every bullet in the store at the start of a tick is advanced     *)
(* once in that tick, by direction * speed * dt; removals and the spawn   *)
(* take effect only at the end of the tick; no bullet is removed twice.   *)
C14_DeferredRemoval ==
    [][/\ ShootingRuns =>
            /\ DOMAIN entities' = DOMAIN entities
            /\ \A e \in OfKind("Bullet") :
                  entities'[e].translation =
                     [i \in 1..3 |->
                        entities[e].translation[i]
                        + (entities[e].velocity * PosScale * entities[e].direction[i])
                             \div (DirScale * 60)]
       /\ ~ShootingRuns =>
            \A e \in OfKind("Bullet") \cap DOMAIN entities' :
                entities'[e].translation = entities[e].translation
       /\ ~StageEnds => OfKind("Bullet")' = OfKind("Bullet")
       /\ StageEnds =>
            /\ Cardinality(DespawnIds) = Removed
            /\ DespawnIds \subseteq OfKind("Bullet")
            /\ OfKind("Bullet") \ OfKind("Bullet")' = DespawnIds
      ]_vars
C14_Witness ==
    /\ "shooting" \in ran
    /\ Removed >= 1
    /\ DespawnIds \subseteq OfKind("Bullet")
    /\ \E e \in DespawnIds : Culled(entities[e].translation)

Mod360(deg) == ((deg % 360) + 360) % 360

(* C15: the player's rotation is the rotation after setup turned by 6     *)
(* degrees times (ticks with only Q held minus ticks with only E held),   *)
(* modulo 360 degrees; a tick with both or neither of Q and E held leaves *)
(* the rotation as it was.                                                *)
C15_NetRotation ==
    [][/\ (6 * Player.rotation = Mod360(6 * rotation0 + 6 * (qOnly - eOnly)))'
       /\ (MovementRuns /\ (("Q" \in keysHeld') <=> ("E" \in keysHeld')))
             => Player.rotation' = Player.rotation
      ]_vars
C15_Witness ==
    /\ ran = {}
    /\ tick = 3
    /\ rotation0 = TurnSteps - 1
    /\ qOnly = 2
    /\ eOnly = 0
    /\ {"Q", "E"} \subseteq keysHeld
    /\ Player.rotation = 1

(* C16: when the spawn timer finishes with sampled angle theta, the enemy *)
(* is queued for insertion at (400 cos theta, 400 sin theta), x from the  *)
(* cosine and y from the sine, with speed 250 and identity rotation.      *)
C16_SpawnAtCosSin ==
    ("spawner" \in ran /\ timerFinished)
    => /\ Len(spawnerQueue) = 1
       /\ spawnerQueue[1].comp.kind = "Enemy"
       /\ spawnerQueue[1].comp.translation =
             Vec((400 * PosScale * Cos(lastAngle)) \div DirScale,
                 (400 * PosScale * Sin(lastAngle)) \div DirScale, 0)
       /\ spawnerQueue[1].comp.velocity = 250
       /\ spawnerQueue[1].comp.rotation = 0

(* C17: every bullet is removed once it has left the arena, which a unit  *)
(* direction makes it do after finitely many ticks: at the end of a tick  *)
(* no bullet in the store lies outside [-extents, +extents], so the       *)
(* number of live bullets stays bounded.                                  *)
C17_BulletsRemoved ==
    ran = {} => \A e \in OfKind("Bullet") : InBounds(entities[e].translation)

(* the store differs only in entities of kind k, none added or removed *)
OnlyKind(k) ==
    /\ DOMAIN entities' = DOMAIN entities
    /\ \A e \in DOMAIN entities : entities[e].kind # k => entities'[e] = entities[e]
(* entity e differs at most in its position *)
OnlyMoved(e) ==
    [entities'[e] EXCEPT !.translation = entities[e].translation, !.nan = entities[e].nan]
        = entities[e]
(* entity e differs at most in its pose *)
OnlyPosed(e) ==
    [entities'[e] EXCEPT !.translation = entities[e].translation,
                         !.rotation = entities[e].rotation] = entities[e]

(* C18: Movement changes only the player's pose; Shooting changes only    *)
(* bullets (their positions, one insert and the removals it queues);      *)
(* the spawner changes only its timer and adds at most one enemy; Homing  *)
(* changes only the positions of enemies, not their speed.                *)
C18_Frames ==
    [][/\ MovementRuns =>
            /\ OnlyKind("Player")
            /\ \A e \in OfKind("Player") : OnlyPosed(e)
            /\ UNCHANGED <<timerElapsed, timerFinished, spawnerQueue, shootingQueue>>
       /\ ShootingRuns =>
            /\ OnlyKind("Bullet")
            /\ \A e \in OfKind("Bullet") : OnlyMoved(e)
            /\ \A i \in 1..Len(shootingQueue') :
                  IF IsSpawn(shootingQueue'[i])
                  THEN shootingQueue'[i].comp.kind = "Bullet"
                  ELSE shootingQueue'[i].id \in OfKind("Bullet")
            /\ UNCHANGED <<timerElapsed, timerFinished, spawnerQueue>>
       /\ SpawnerRuns =>
            /\ entities' = entities
            /\ shootingQueue' = shootingQueue
            /\ Len(spawnerQueue') <= 1
            /\ \A i \in 1..Len(spawnerQueue') :
                  IsSpawn(spawnerQueue'[i]) /\ spawnerQueue'[i].comp.kind = "Enemy"
       /\ HomingRuns =>
            /\ OnlyKind("Enemy")
            /\ \A e \in OfKind("Enemy") :
                  OnlyMoved(e) /\ entities'[e].velocity = entities[e].velocity
            /\ UNCHANGED <<timerElapsed, timerFinished, spawnerQueue, shootingQueue>>
       /\ StageEnds =>
            /\ \A e \in DOMAIN entities \cap DOMAIN entities' : entities'[e] = entities[e]
            /\ DOMAIN entities \ DOMAIN entities' \subseteq OfKind("Bullet")
            /\ Count("Enemy")' <= Count("Enemy") + 1
            /\ Count("Player")' = Count("Player")
            /\ Count("Camera")' = Count("Camera")
      ]_vars
C18_Witness ==
    /\ Cardinality(ran) = 4
    /\ Count("Enemy") >= 1
    /\ Removed >= 1
    /\ "Right" \in keysHeld
    /\ Player.translation # ZeroVec
    /\ \E e \in OfKind("Enemy") : entities[e].translation[1] # 0 /\ entities[e].translation[2] # 0

====
